---- MODULE Spec2Model ----
(***************************************************************************)
(* Model of convert_brats2twolabel.py: the conversion of a BraTS2021       *)
(* three-label segmentation (1 NCR/NET, 2 ED, 4 AT) and an HD-GLIO         *)
(* segmentation into the two-label format (1 NE, 2 CE).                    *)
(*                                                                         *)
(* A volume is a record [shape, data]: shape is the triple of axis sizes,  *)
(* data a function from the voxels <<x, y, z>> of that shape to integers.  *)
(* numpy's elementwise operators are modelled with their broadcasting.     *)
(***************************************************************************)
EXTENDS Integers, Sequences, FiniteSets, TLC

(* ------------------------------ bounds -------------------------------- *)

\* Axis sizes of the volumes passed to convert_data_brats2021_to_twolabel.
DimX == 4
DimY == 3
DimZ == 3

\* Largest cluster_size_threshold tried besides the default.
MaxThreshold == 2

\* argparse default of --cluster_size_threshold and keyword default.
DefaultThreshold == 50

Shape == <<DimX, DimY, DimZ>>

(* ------------------------- arrays and shapes -------------------------- *)

Axes == 1..3

Voxels(s) == (1..s[1]) \X (1..s[2]) \X (1..s[3])

Max(a, b) == IF a >= b THEN a ELSE b

\* numpy broadcasting of two shapes of equal rank: axes must agree or be 1.
Broadcastable(s1, s2) ==
    \A i \in Axes : s1[i] = s2[i] \/ s1[i] = 1 \/ s2[i] = 1

BroadcastShape(s1, s2) == [i \in Axes |-> Max(s1[i], s2[i])]

\* Element of array a seen at voxel v of a (possibly larger) broadcast shape.
At(a, v) == a.data[<<IF a.shape[1] = 1 THEN 1 ELSE v[1],
                     IF a.shape[2] = 1 THEN 1 ELSE v[2],
                     IF a.shape[3] = 1 THEN 1 ELSE v[3]>>]

NoArray == [shape |-> <<0, 0, 0>>, data |-> <<>>]

\* astype(np.uint8) of a non-negative integral voxel value.
AsUint8(x) == x % 256

Cast(a) ==
    [shape |-> a.shape,
     data |-> [v \in Voxels(a.shape) |-> AsUint8(a.data[v])]]

(* --------------------- scipy.ndimage building blocks ------------------ *)

\* generate_binary_structure(rank, 1): the voxel's face neighbours.
Neighbours(v, s) ==
    { w \in { [v EXCEPT ![i] = v[i] + d] : i \in Axes, d \in {-1, 1} } :
        \A i \in Axes : w[i] >= 1 /\ w[i] <= s[i] }

\* A voxel with at least one structure offset falling outside the array.
OnBorder(v, s) == \E i \in Axes : v[i] = 1 \/ v[i] = s[i]

\* Variant: a single dilation pass (iterations=1).
DilateOnce(tmp, mask, s) ==
    { v \in mask : \/ v \in tmp
                    \/ OnBorder(v, s)
                    \/ Neighbours(v, s) \cap tmp # {} }

\* binary_dilation(tmp, structure, -1, mask, None, border_value=1): repeat the
\* dilation, restricted to mask, until nothing changes.
RECURSIVE DilateUntilStable(_, _, _)
DilateUntilStable(tmp, mask, s) ==
    LET next == { v \in mask : \/ v \in tmp
                               \/ OnBorder(v, s)
                               \/ Neighbours(v, s) \cap tmp # {} }
    IN  IF next = tmp THEN tmp ELSE DilateUntilStable(next, mask, s)

\* ndi.binary_fill_holes(input): complement of what the dilation from the
\* border reaches inside the complement of input.
BinaryFillHoles(a) ==
    LET s == a.shape
        mask == { v \in Voxels(s) : a.data[v] = 0 }
        reached == DilateUntilStable({}, mask, s)
    IN  [shape |-> s,
         data |-> [v \in Voxels(s) |-> IF v \in reached THEN 0 ELSE 1]]

\* The face-connected component of voxel set fg that contains frontier.
RECURSIVE Grow(_, _, _, _)
Grow(frontier, seen, fg, s) ==
    IF frontier = {} THEN seen
    ELSE LET nxt == (UNION { Neighbours(v, s) : v \in frontier } \cap fg) \ seen
         IN  Grow(nxt, seen \cup nxt, fg, s)

Component(v, fg, s) == Grow({v}, {v}, fg, s)

\* Position of a voxel in the C-order scan of an array of shape s.
RasterIndex(v, s) == ((v[1] - 1) * s[2] + (v[2] - 1)) * s[3] + (v[3] - 1)

FirstIndex(C, s) ==
    CHOOSE k \in { RasterIndex(v, s) : v \in C } :
        \A v \in C : k <= RasterIndex(v, s)

\* ndi.label(input): number the face-connected clusters of non-zero voxels
\* 1..nlabels in scan order; 0 elsewhere.
Label(a) ==
    LET s == a.shape
        fg == { v \in Voxels(s) : a.data[v] # 0 }
        comps == { Component(v, fg, s) : v \in fg }
        id(C) ==
            Cardinality({ C2 \in comps : FirstIndex(C2, s) <= FirstIndex(C, s) })
    IN  [shape |-> s,
         data |-> [v \in Voxels(s) |->
                     IF v \in fg THEN id(CHOOSE C \in comps : v \in C)
                     ELSE 0]]

\* np.unique(a, return_counts=True): the values present and their counts.
Unique(a) == { a.data[v] : v \in Voxels(a.shape) }

Count(a, l) == Cardinality({ v \in Voxels(a.shape) : a.data[v] = l })

(* ------------- convert_data_brats2021_to_twolabel, by line ------------ *)

\* Variant: NCR/NET is not restricted to the HD-GLIO whole tumour.
CombineMasksAnywhere(brats, hdglio) ==
    LET s == BroadcastShape(brats.shape, hdglio.shape)
    IN  [shape |-> s,
         data |-> [v \in Voxels(s) |->
                     IF At(brats, v) = 1 \/ At(brats, v) = 2 THEN 1 ELSE 0]]

\* np.where(((d_hdglio != 0) & (d_brats == 1)) | (d_brats == 2), 1, 0)
CombineMasks(brats, hdglio) ==
    LET s == BroadcastShape(brats.shape, hdglio.shape)
    IN  [shape |-> s,
         data |-> [v \in Voxels(s) |->
                     IF \/ (At(hdglio, v) # 0 /\ At(brats, v) = 1)
                        \/ At(brats, v) = 2
                     THEN 1 ELSE 0]]

\* AT = np.where(d_brats == 4, 1, 0)
ATMask(brats) ==
    [shape |-> brats.shape,
     data |-> [v \in Voxels(brats.shape) |->
                 IF brats.data[v] = 4 THEN 1 ELSE 0]]

\* enclosed_NCR = np.where((filled_AT == 1) & (AT == 0), 1, 0)
EnclosedNCR(filled, AT) ==
    [shape |-> AT.shape,
     data |-> [v \in Voxels(AT.shape) |->
                 IF filled.data[v] = 1 /\ AT.data[v] = 0 THEN 1 ELSE 0]]

\* Variant: the two branches of np.where swapped.
RemoveEnclosedSwapped(enclosed, ne) ==
    LET s == BroadcastShape(enclosed.shape, ne.shape)
    IN  [shape |-> s,
         data |-> [v \in Voxels(s) |->
                     IF At(enclosed, v) = 1 THEN At(ne, v) ELSE 0]]

\* NE = np.where(enclosed_NCR == 1, 0, NE)
RemoveEnclosed(enclosed, ne) ==
    LET s == BroadcastShape(enclosed.shape, ne.shape)
    IN  [shape |-> s,
         data |-> [v \in Voxels(s) |->
                     IF At(enclosed, v) = 1 THEN 0 ELSE At(ne, v)]]

\* Variant: n >= threshold.
LabelsAtLeastThr(labelled, threshold) ==
    { l \in Unique(labelled) : Count(labelled, l) >= threshold /\ l > 0 }

\* Variant: n < threshold.
LabelsBelowThr(labelled, threshold) ==
    { l \in Unique(labelled) : Count(labelled, l) < threshold /\ l > 0 }

\* lbls[(n > threshold) & (lbls > 0)]
LabelsAboveThr(labelled, threshold) ==
    { l \in Unique(labelled) : Count(labelled, l) > threshold /\ l > 0 }

\* Variant: ED is not restored after the size filter.
UpdateNEDropsEdema(labelled, above, brats) ==
    LET s == BroadcastShape(labelled.shape, brats.shape)
    IN  [shape |-> s,
         data |-> [v \in Voxels(s) |->
                     IF At(labelled, v) \in above THEN 1 ELSE 0]]

\* np.where(np.isin(labelled_NE, lbls_above_thr) | (d_brats == 2), 1, 0)
UpdateNE(labelled, above, brats) ==
    LET s == BroadcastShape(labelled.shape, brats.shape)
    IN  [shape |-> s,
         data |-> [v \in Voxels(s) |->
                     IF At(labelled, v) \in above \/ At(brats, v) = 2
                     THEN 1 ELSE 0]]

\* Variant: AT looked up under label 3, its BraTS2023 value.
InsertCELabel3(brats, ne_out) ==
    LET s == BroadcastShape(brats.shape, ne_out.shape)
    IN  [shape |-> s,
         data |-> [v \in Voxels(s) |->
                     IF At(brats, v) = 3 THEN 2 ELSE At(ne_out, v)]]

\* Variant: AT keeps its BraTS value 4.
InsertCEKeepsLabel(brats, ne_out) ==
    LET s == BroadcastShape(brats.shape, ne_out.shape)
    IN  [shape |-> s,
         data |-> [v \in Voxels(s) |->
                     IF At(brats, v) = 4 THEN 4 ELSE At(ne_out, v)]]

\* d_out = np.where(d_brats == 4, 2, NE_out)
InsertCE(brats, ne_out) ==
    LET s == BroadcastShape(brats.shape, ne_out.shape)
    IN  [shape |-> s,
         data |-> [v \in Voxels(s) |->
                     IF At(brats, v) = 4 THEN 2 ELSE At(ne_out, v)]]

(* ------------------------------- inputs -------------------------------- *)

\* Voxels strictly inside the volume, and the voxels that wall them in.
Interior(s) == { v \in Voxels(s) : \A i \in Axes : v[i] > 1 /\ v[i] < s[i] }

ShellOf(s) ==
    { v \in Voxels(s) \ Interior(s) : Neighbours(v, s) \cap Interior(s) # {} }

\* The voxels whose label is enumerated freely: a run along the x axis
\* through the interior, and a wall voxel diagonal to its ends.
WideWindow == { <<1, 2, 2>>, <<2, 2, 2>>, <<3, 2, 2>>, <<2, 1, 2>> }

NarrowWindow == { <<1, 2, 2>>, <<2, 2, 2>> }

\* BraTS labels 0, 1 (NCR/NET), 2 (ED) and 4 (AT).
PrimaryLabels == {0, 1, 2, 4}

\* A value outside the BraTS taxonomy, and the window voxels that may hold it.
UndeclaredLabels == {3}

OddWindow == { <<1, 2, 2>> }

\* Uniform HD-GLIO values tried by a direct call: no tumour, or label 2.
AuxFills == {0, 2}

\* Segmentations that are empty, or a closed AT shell, outside the window.
PrimaryInputs(s, window, labels) ==
    { [shape |-> s,
       data |-> [v \in Voxels(s) |->
                   IF v \in window THEN w[v]
                   ELSE IF shell /\ v \in ShellOf(s) THEN 4 ELSE 0]] :
        w \in { f \in [window \cap Voxels(s) -> labels \cup UndeclaredLabels] :
                 \A v \in DOMAIN f : f[v] \in labels \/ v \in OddWindow },
        shell \in BOOLEAN }

\* HD-GLIO segmentations: uniform, or whole tumour with one window voxel out.
AuxInputs(s, window, labels) ==
    { [shape |-> s, data |-> [v \in Voxels(s) |-> fill]] : fill \in labels }
    \cup { [shape |-> s,
             data |-> [v \in Voxels(s) |-> IF v = z THEN 0 ELSE 1]] :
             z \in window \cap Voxels(s) }

Thresholds == (0..MaxThreshold) \cup {DefaultThreshold}

FileShapes == { <<3, 3, 3>>, <<1, 3, 3>>, <<2, 3, 3>>, <<3, 3, 1>> }

\* Values given to --at_fill on the command line; <<>> when it is left out.
ArgvAtFill == { <<>>, <<"True">>, <<"False">>, <<"">> }

ArgvThreshold == { <<>>, <<0>> }

(* -------------------------------- state -------------------------------- *)

VARIABLES
    pc,                      \* position in the program
    argv,                    \* command line options given to main
    args,                    \* argparse result
    brats_file,              \* content of the BraTS2021 NIfTI file
    hdglio_file,             \* content of the HD-GLIO NIfTI file
    output_file,             \* content of the output file, NoArray if none
    d_brats,
    d_hdglio,
    cluster_size_threshold,
    at_fill,
    NE,
    enclosed_NCR,
    labelled_NE,
    lbls_above_thr,
    NE_out,
    d_out

vars == <<pc, argv, args, brats_file, hdglio_file, output_file, d_brats,
          d_hdglio, cluster_size_threshold, at_fill, NE, enclosed_NCR,
          labelled_NE, lbls_above_thr, NE_out, d_out>>

fileVars == <<argv, args, brats_file, hdglio_file, output_file>>

paramVars == <<d_brats, d_hdglio, cluster_size_threshold, at_fill>>

NoArgv == [at_fill |-> <<>>, cluster_size_threshold |-> <<>>]

NoArgs == [at_fill |-> TRUE, cluster_size_threshold |-> DefaultThreshold]

LocalsInit ==
    /\ NE = NoArray
    /\ enclosed_NCR = NoArray
    /\ labelled_NE = NoArray
    /\ lbls_above_thr = {}
    /\ NE_out = NoArray
    /\ d_out = NoArray

\* A direct call of convert_data_brats2021_to_twolabel on same-shape volumes.
Init ==
    /\ pc = "call"
    /\ argv = NoArgv
    /\ args = NoArgs
    /\ brats_file = NoArray
    /\ hdglio_file = NoArray
    /\ output_file = NoArray
    /\ d_brats \in PrimaryInputs(Shape, WideWindow, PrimaryLabels)
    /\ d_hdglio \in AuxInputs(Shape, NarrowWindow, AuxFills)
    /\ cluster_size_threshold \in Thresholds
    /\ at_fill \in BOOLEAN
    /\ LocalsInit

\* The script run from the command line on two NIfTI files, or a direct call
\* of convert_file_brats2021_to_twolabel with keyword arguments.
FileInit ==
    /\ \/ /\ pc = "main"
          /\ argv \in [at_fill : ArgvAtFill,
                        cluster_size_threshold : ArgvThreshold]
          /\ args = NoArgs
       \/ /\ pc = "parsed"
          /\ argv = NoArgv
          /\ args \in [at_fill : BOOLEAN,
                        cluster_size_threshold : {0, DefaultThreshold}]
    /\ \E s1 \in FileShapes, s2 \in FileShapes :
         /\ brats_file \in PrimaryInputs(s1, NarrowWindow, {0, 1, 2, 4})
         /\ hdglio_file \in AuxInputs(s2, {}, {0, 1})
    /\ output_file = NoArray
    /\ d_brats = NoArray
    /\ d_hdglio = NoArray
    /\ cluster_size_threshold = DefaultThreshold
    /\ at_fill = TRUE
    /\ LocalsInit

(* ------------------------------- actions ------------------------------- *)

\* Line 73. The elementwise operators raise ValueError when the operands
\* cannot be broadcast together.
Combine ==
    /\ pc = "call"
    /\ Broadcastable(d_brats.shape, d_hdglio.shape)
    /\ NE' = CombineMasks(d_brats, d_hdglio)
    /\ pc' = "combined"
    /\ UNCHANGED <<fileVars, paramVars, enclosed_NCR, labelled_NE,
                   lbls_above_thr, NE_out, d_out>>

CombineRaises ==
    /\ pc = "call"
    /\ ~Broadcastable(d_brats.shape, d_hdglio.shape)
    /\ pc' = "raised"
    /\ UNCHANGED <<fileVars, paramVars, NE, enclosed_NCR, labelled_NE,
                   lbls_above_thr, NE_out, d_out>>

\* Lines 76-80 with at_fill true.
FillAT ==
    /\ pc = "combined"
    /\ at_fill
    /\ LET AT == ATMask(d_brats)
           filled_AT == BinaryFillHoles(AT)
       IN  /\ enclosed_NCR' = EnclosedNCR(filled_AT, AT)
           /\ NE' = RemoveEnclosed(enclosed_NCR', NE)
    /\ pc' = "filled"
    /\ UNCHANGED <<fileVars, paramVars, labelled_NE, lbls_above_thr,
                   NE_out, d_out>>

\* Line 76 with at_fill false.
SkipFill ==
    /\ pc = "combined"
    /\ ~at_fill
    /\ pc' = "filled"
    /\ UNCHANGED <<fileVars, paramVars, NE, enclosed_NCR, labelled_NE,
                   lbls_above_thr, NE_out, d_out>>

\* Lines 83-88.
FilterClusters ==
    /\ pc = "filled"
    /\ labelled_NE' = Label(NE)
    /\ lbls_above_thr' = LabelsAboveThr(labelled_NE', cluster_size_threshold)
    /\ NE_out' = UpdateNE(labelled_NE', lbls_above_thr', d_brats)
    /\ pc' = "filtered"
    /\ UNCHANGED <<fileVars, paramVars, NE, enclosed_NCR, d_out>>

\* Lines 91-93.
Return ==
    /\ pc = "filtered"
    /\ d_out' = InsertCE(d_brats, NE_out)
    /\ pc' = "returned"
    /\ UNCHANGED <<fileVars, paramVars, NE, enclosed_NCR, labelled_NE,
                   lbls_above_thr, NE_out>>

Next == Combine \/ FillAT \/ SkipFill \/ FilterClusters \/ Return

Spec == Init /\ [][Next]_vars

\* argparse type=bool: bool(text), true of every non-empty text.
ParseBool(text) == text # ""

\* Lines 111-118.
Main ==
    /\ pc = "main"
    /\ args' = [at_fill |->
                    IF argv.at_fill = <<>> THEN TRUE
                    ELSE ParseBool(argv.at_fill[1]),
                cluster_size_threshold |->
                    IF argv.cluster_size_threshold = <<>> THEN DefaultThreshold
                    ELSE argv.cluster_size_threshold[1]]
    /\ pc' = "parsed"
    /\ UNCHANGED <<argv, brats_file, hdglio_file, output_file, paramVars, NE,
                   enclosed_NCR, labelled_NE, lbls_above_thr, NE_out, d_out>>

\* Lines 98-104: read both files as uint8 and call the conversion.
ReadAndCall ==
    /\ pc = "parsed"
    /\ d_brats' = Cast(brats_file)
    /\ d_hdglio' = Cast(hdglio_file)
    /\ cluster_size_threshold' = args.cluster_size_threshold
    /\ at_fill' = TRUE
    /\ pc' = "call"
    /\ UNCHANGED <<fileVars, NE, enclosed_NCR, labelled_NE, lbls_above_thr,
                   NE_out, d_out>>

\* Line 107.
WriteNifti ==
    /\ pc = "returned"
    /\ output_file' = Cast(d_out)
    /\ pc' = "written"
    /\ UNCHANGED <<argv, args, brats_file, hdglio_file, paramVars, NE,
                   enclosed_NCR, labelled_NE, lbls_above_thr, NE_out, d_out>>

FileNext ==
    \/ Main \/ ReadAndCall \/ Combine \/ CombineRaises \/ FillAT
    \/ FilterClusters \/ Return \/ WriteNifti

FileSpec == FileInit /\ [][FileNext]_vars

(* --------------------- vocabulary of the properties -------------------- *)

\* 6-connectivity: the voxels differ by one unit along exactly one axis.
FaceAdjacent(v, w) ==
    \E i \in Axes : /\ (v[i] - w[i] = 1 \/ w[i] - v[i] = 1)
                    /\ \A j \in Axes \ {i} : v[j] = w[j]

\* The six positions face-adjacent to v, inside the volume or not.
Steps(v) ==
    { <<v[1] - 1, v[2], v[3]>>, <<v[1] + 1, v[2], v[3]>>,
      <<v[1], v[2] - 1, v[3]>>, <<v[1], v[2] + 1, v[3]>>,
      <<v[1], v[2], v[3] - 1>>, <<v[1], v[2], v[3] + 1>> }

\* The voxels of region joined to the voxels of front by a chain of
\* face-adjacent steps inside region.
RECURSIVE Spread(_, _, _)
Spread(front, seen, region) ==
    LET more == (UNION { Steps(u) : u \in front } \cap region) \ seen
    IN  IF more = {} THEN seen ELSE Spread(more, seen \cup more, region)

Cluster(v, region) == Spread({v}, {v}, region)

\* Voxels on one of the six outer faces of a volume of shape s.
OuterFaces(s) ==
    { v \in Voxels(s) : \E i \in Axes : v[i] = 1 \/ v[i] = s[i] }

P(v) == d_brats.data[v]

A(v) == d_hdglio.data[v]

AllVoxels == Voxels(d_brats.shape)

NonAT == { v \in AllVoxels : P(v) # 4 }

\* The voxels joined to the outer boundary by a 6-connected path of voxels
\* with P # 4.
BoundaryReach ==
    LET start == NonAT \cap OuterFaces(d_brats.shape)
    IN  Spread(start, start, NonAT)

\* The initial candidate mask M0 of the two inputs.
M0 == { v \in AllVoxels : (A(v) # 0 /\ P(v) = 1) \/ P(v) = 2 }

\* The candidate mask M1 that enters the size filter.
M1 == { v \in AllVoxels : NE.data[v] = 1 }

M2 == { v \in AllVoxels : NE_out.data[v] = 1 }

Edema == { v \in AllVoxels : P(v) = 2 }

Filled == pc \in {"filled", "filtered", "returned"}

Filtered == pc \in {"filtered", "returned"}

Returned == pc = "returned"

(* ------------------------------ properties ----------------------------- *)

\* C1. Precedence law: the returned volume is 2 at every voxel where the
\* primary volume is 4, for every threshold and either setting of at_fill.
PrecedenceLaw ==
    Returned =>
        /\ d_out.shape = d_brats.shape
        /\ \A v \in AllVoxels : P(v) = 4 => d_out.data[v] = 2

PrecedenceWitness ==
    /\ Returned
    /\ ~at_fill
    /\ \E v \in AllVoxels, w \in AllVoxels :
         /\ P(v) = 4 /\ d_out.data[v] = 2
         /\ P(w) = 1 /\ d_out.data[w] = 1 /\ FaceAdjacent(v, w)

\* C2. Edema-preservation law: every voxel with P = 2 is in the filtered
\* mask and is returned as 1, whatever the auxiliary value, the size of its
\* cluster and whether the enclosure step removed it.
EdemaPreservation ==
    /\ Filtered => \A v \in Edema : NE_out.data[v] = 1
    /\ Returned => \A v \in Edema : d_out.data[v] = 1

EdemaWitness ==
    /\ Returned
    /\ at_fill
    /\ cluster_size_threshold > 0
    /\ \E v \in Edema :
         /\ A(v) = 0
         /\ enclosed_NCR.data[v] = 1
         /\ labelled_NE.data[v] = 0
         /\ d_out.data[v] = 1
    /\ \E v \in Edema :
         /\ labelled_NE.data[v] # 0
         /\ labelled_NE.data[v] \notin lbls_above_thr
         /\ d_out.data[v] = 1

\* C3. Every voxel of the returned volume is 0, 1 or 2, also when the
\* primary volume holds values outside {0, 1, 2, 4}.
OutputRange ==
    Returned => \A v \in AllVoxels : d_out.data[v] \in {0, 1, 2}

OutputRangeWitness ==
    /\ Returned
    /\ \E v \in AllVoxels : P(v) \notin {0, 1, 2, 4}
    /\ \A x \in {0, 1, 2} : \E v \in AllVoxels : d_out.data[v] = x

EnclosedRemoved ==
    ((pc = "filled" \/ Returned) /\ at_fill) =>
        LET reach == BoundaryReach
        IN  \A v \in NonAT :
            IF v \in reach
            THEN enclosed_NCR.data[v] = 0
            ELSE /\ enclosed_NCR.data[v] = 1
                 /\ (Returned /\ P(v) = 1) => d_out.data[v] = 0

\* A pocket of two necrosis voxels is cleared; elsewhere a necrosis voxel
\* strictly inside the volume reaches the boundary and is kept.
EnclosedWitness ==
    /\ Returned
    /\ at_fill
    /\ cluster_size_threshold = 0
    /\ \E v \in AllVoxels, w \in AllVoxels :
         /\ v # w /\ FaceAdjacent(v, w)
         /\ P(v) = 1 /\ P(w) = 1 /\ A(v) # 0 /\ A(w) # 0
         /\ d_out.data[v] = 0 /\ d_out.data[w] = 0
         /\ v \notin BoundaryReach

\* C8. Threshold monotonicity: the filtered mask under T is contained in the
\* filtered mask under every smaller threshold, the two agree on the edema
\* voxels, and under threshold 0 the mask is M1 united with the edema.
FilteredMask(T) ==
    LET mask == UpdateNE(labelled_NE, LabelsAboveThr(labelled_NE, T), d_brats)
    IN  { v \in AllVoxels : mask.data[v] = 1 }

ThresholdMonotone ==
    pc = "filtered" =>
        /\ \A T1 \in 0..(cluster_size_threshold - 1) :
             T1 \in Thresholds =>
                /\ M2 \subseteq FilteredMask(T1)
                /\ M2 \cap Edema = FilteredMask(T1) \cap Edema
        /\ cluster_size_threshold = 0 => M2 = M1 \cup Edema

ThresholdWitness ==
    /\ pc = "filtered"
    /\ \E T1 \in 1..(cluster_size_threshold - 1) :
         /\ T1 \in Thresholds
         /\ \E v \in FilteredMask(T1) : v \notin M2
    /\ \E v \in Edema : labelled_NE.data[v] \notin lbls_above_thr

\* C9. Output class 1 stays inside the initial candidate mask: a voxel
\* returned as 1 has P = 2, or P = 1 and a non-zero auxiliary value.
NEWithinCandidates ==
    Returned =>
        \A v \in AllVoxels :
            d_out.data[v] = 1 => (P(v) = 2 \/ (P(v) = 1 /\ A(v) # 0))

NEWithinWitness ==
    /\ Returned
    /\ \E v \in AllVoxels, w \in AllVoxels :
         /\ P(v) = 1 /\ A(v) = 0 /\ d_out.data[v] = 0
         /\ P(w) = 1 /\ A(w) # 0 /\ d_out.data[w] = 1
    /\ \E v \in AllVoxels : P(v) \notin {0, 1, 2, 4} /\ d_out.data[v] = 0

\* C10. The enclosure step clears a cluster of the initial candidate mask
\* whole or leaves it whole: a surviving cluster is a cluster of M1 of the
\* same voxel count, which is the count the size filter compares with T.
EnclosureKeepsClusters ==
    (Filled /\ at_fill) =>
        \A v \in M0 :
            LET C == Cluster(v, M0)
            IN  \/ \A w \in C : enclosed_NCR.data[w] = 1 /\ w \notin M1
                \/ /\ \A w \in C : enclosed_NCR.data[w] = 0
                   /\ Cluster(v, M1) = C
                   /\ Filtered =>
                        Count(labelled_NE, labelled_NE.data[v]) = Cardinality(C)

EnclosureClustersWitness ==
    /\ pc = "filtered"
    /\ at_fill
    /\ \E v \in M0 : Cluster(v, M0) \cap M1 = {}
    /\ \E v \in M1 : P(v) = 1 /\ labelled_NE.data[v] \in lbls_above_thr

(* ------------------ properties of the file conversion ------------------ *)

PF(v) == At(brats_file, v)

AF(v) == At(hdglio_file, v)

FileVoxels == Voxels(BroadcastShape(brats_file.shape, hdglio_file.shape))

FileM0 == { v \in FileVoxels : (AF(v) # 0 /\ PF(v) = 1) \/ PF(v) = 2 }

\* at_fill disabled: "False" on the command line, or False as the keyword.
FillDisabled == argv.at_fill = <<"False">> \/ ~args.at_fill

\* C4. With enclosure filling disabled the stage is skipped: the candidate
\* mask stays M0, so a necrosis voxel inside the auxiliary tumour whose
\* cluster of M0 has more than T voxels is written as 1, enclosed or not.
DisabledFillSkipsEnclosure ==
    (pc = "written" /\ FillDisabled /\ brats_file.shape = hdglio_file.shape) =>
        \A v \in FileM0 :
            (PF(v) = 1 /\ Cardinality(Cluster(v, FileM0)) > args.cluster_size_threshold)
                => output_file.data[v] = 1

\* C5. Volumes of different shape: the conversion ends by raising at the
\* shape check, so nothing is returned and no output file is written.
ShapeMismatchRaises ==
    (brats_file.shape # hdglio_file.shape /\ pc \in {"raised", "written"}) =>
        /\ pc = "raised"
        /\ output_file.shape = NoArray.shape

====
